---- MODULE Spec2Model ----
(***************************************************************************)
(* Model of samples/ears/ears.py: the EarDataset adapter (load_ear,        *)
(* load_mask), the color_splash compositor and the command-line driver     *)
(* (detect and the __main__ block).                                        *)
(*                                                                         *)
(* File names are sequences of one-character strings, so that splitext and *)
(* glob matching are computed on the characters as the library does.  A    *)
(* path is a record [abs, parts]: whether it starts at the filesystem root *)
(* and the sequence of its components.                                     *)
(***************************************************************************)
EXTENDS Integers, Sequences, FiniteSets, TLC

VARIABLES fs, dataset_root, pc, subset_arg, class_info, image_info, err,
          ret, io,
          image, mask, splash,
          args, cli_pc, outcome, written, printed, file_name

vars == <<fs, dataset_root, pc, subset_arg, class_info, image_info, err,
          ret, io,
          image, mask, splash,
          args, cli_pc, outcome, written, printed, file_name>>

dsVars == <<fs, dataset_root, pc, subset_arg, class_info, image_info, err,
           ret, io>>
splashVars == <<image, mask, splash>>
cliVars == <<args, cli_pc, outcome, written, printed, file_name>>

(* ---------------------------------------------------------------------- *)
(* Bounds                                                                  *)
(* ---------------------------------------------------------------------- *)
MaxImages == 2
MaxMasks == 2
MaxInstances == 2

None == "None"

(* ---------------------------------------------------------------------- *)
(* os.path                                                                 *)
(* ---------------------------------------------------------------------- *)
Path(a, ps) == [abs |-> a, parts |-> ps]

Rel(name) == Path(FALSE, <<name>>)

\* os.path.join(a, b): an absolute b discards a
join(a, b) ==
    IF b.abs THEN b ELSE Path(a.abs, a.parts \o b.parts)

\* os.path.dirname(p)
dirname(p) ==
    IF Len(p.parts) = 0 THEN p
    ELSE Path(p.abs, SubSeq(p.parts, 1, Len(p.parts) - 1))

basename(p) == IF Len(p.parts) = 0 THEN <<>> ELSE p.parts[Len(p.parts)]

\* index of the last "." of a name, 0 when there is none
LastDot(name) ==
    LET ds == {i \in 1..Len(name) : name[i] = "."}
    IN IF ds = {} THEN 0 ELSE CHOOSE i \in ds : \A j \in ds : j <= i

\* os.path.splitext on one component: [root, ext]; a name made of leading
\* dots only up to the last dot has no extension
splitextName(name) ==
    LET d == LastDot(name)
    IN IF d = 0 \/ (\A j \in 1..(d - 1) : name[j] = ".")
       THEN <<name, <<>>>>
       ELSE <<SubSeq(name, 1, d - 1), SubSeq(name, d, Len(name))>>

\* os.path.splitext(p)[0]
splitextRoot(p) ==
    IF Len(p.parts) = 0 THEN p
    ELSE Path(p.abs, [p.parts EXCEPT ![Len(p.parts)] = splitextName(@)[1]])

\* string concatenation onto a path: extends its last component
concat(p, suffix) ==
    Path(p.abs, [p.parts EXCEPT ![Len(p.parts)] = @ \o suffix])

(* ---------------------------------------------------------------------- *)
(* fnmatch / glob                                                          *)
(* ---------------------------------------------------------------------- *)
RECURSIVE fnmatch(_, _)
fnmatch(name, pat) ==
    IF Len(pat) = 0 THEN Len(name) = 0
    ELSE IF pat[1] = "*"
         THEN \E k \in 0..Len(name) :
                  fnmatch(SubSeq(name, k + 1, Len(name)), Tail(pat))
    ELSE IF Len(name) = 0 THEN FALSE
    ELSE IF pat[1] = "?" THEN fnmatch(Tail(name), Tail(pat))
    ELSE pat[1] = name[1] /\ fnmatch(Tail(name), Tail(pat))

\* names of the immediate file entries of directory d
listfiles(files, d) ==
    {basename(p) : p \in {q \in DOMAIN files :
                             Len(q.parts) > 0 /\ dirname(q) = d}}

\* the set glob.glob(pattern) returns: the pattern's directory part, as it
\* was written, joined with every matching entry of that directory
globSet(files, pattern) ==
    {join(dirname(pattern), Rel(n)) :
        n \in {m \in listfiles(files, dirname(pattern)) :
                  fnmatch(m, basename(pattern))}}

Perms(S) ==
    {s \in [1..Cardinality(S) -> S] :
        \A i, j \in 1..Cardinality(S) : i # j => s[i] # s[j]}

(* ---------------------------------------------------------------------- *)
(* The files on disk                                                       *)
(* ---------------------------------------------------------------------- *)
Train == <<"t", "r", "a", "i", "n">>
Test == <<"t", "e", "s", "t">>
Bogus == <<"v", "a", "l">>
TrainAnnot == Train \o <<"a", "n", "n", "o", "t">>
Subsets == {Train, Test, Bogus, TrainAnnot}

Roots == {Path(TRUE, <<(<<"d">>)>>), Path(FALSE, <<(<<"d">>)>>)}

ImageNames == {<<"a", ".", "p">>, <<"a", ".", "j">>, <<"b", ".", "p">>}

MaskNames == {<<"a", "_", "0", ".", "p">>, <<"a", "_", "1", ".", "p">>,
              <<"a", "_", "1", "0", ".", "p">>, <<"b", "_", "0", ".", "p">>}

Shapes == {<<1, 1>>, <<1, 2>>}

Unreadable == [ok |-> FALSE, shape |-> <<0, 0>>, v |-> 0]

ImageContents == {Unreadable} \cup {[ok |-> TRUE, shape |-> sh, v |-> 0] : sh \in Shapes}

MaskContents ==
    {[ok |-> TRUE, shape |-> <<1, 1>>, v |-> 0],
     [ok |-> TRUE, shape |-> <<1, 1>>, v |-> 255],
     [ok |-> TRUE, shape |-> <<1, 2>>, v |-> 255]}

Choices(names, contents, max) ==
    UNION {[S -> contents] : S \in {T \in SUBSET names : Cardinality(T) <= max}}

\* a file below a subdirectory of the images directory
NestedName == <<(<<"s">>), (<<"c", ".", "p">>)>>

Disk(root, imgs, msks) ==
    LET idir == join(root, Rel(Train))
        mdir == join(root, Rel(Train \o <<"a", "n", "n", "o", "t">>))
        nested == join(idir, Path(FALSE, NestedName))
        ipaths == {join(idir, Rel(n)) : n \in DOMAIN imgs}
        mpaths == {join(mdir, Rel(n)) : n \in DOMAIN msks}
    IN [p \in ipaths \cup mpaths \cup {nested} |->
          IF p \in ipaths THEN imgs[basename(p)]
          ELSE IF p \in mpaths THEN msks[basename(p)]
          ELSE [ok |-> TRUE, shape |-> <<1, 1>>, v |-> 0]]

\* skimage.io.imread(path)
imread(files, p) ==
    IF p \notin DOMAIN files THEN [ok |-> FALSE, err |-> "FileNotFoundError"]
    ELSE IF ~files[p].ok THEN [ok |-> FALSE, err |-> "DecodeError"]
    ELSE [ok |-> TRUE, shape |-> files[p].shape, v |-> files[p].v]

(* ---------------------------------------------------------------------- *)
(* EarDataset                                                              *)
(* ---------------------------------------------------------------------- *)
BG == [source |-> "", id |-> 0, name |-> "BG"]

\* load_ear without its assert
subset_ok_noassert(subset) == TRUE

\* the check of the assert statement of load_ear
subset_ok(subset) == subset \in {Train, Test}

\* the image_id load_ear gives a file
image_id_of(filename) == splitextName(filename)[1]

\* the loop over the scanned file names; st carries the records added so
\* far, the reads made and the error that ended the loop
RECURSIVE add_images(_, _, _, _, _, _)
add_images(files, images, i, dataset_dir, mask_dir, st) ==
    IF i > Len(images) THEN st
    ELSE
      LET filename == images[i]
          image_path == join(dataset_dir, Rel(filename))
          mask_path == join(mask_dir, Rel(filename))
          img == imread(files, image_path)
          io1 == Append(st.io, [op |-> "imread", path |-> image_path])
      IN IF ~img.ok
         THEN [st EXCEPT !.io = io1, !.err = img.err]
         ELSE add_images(files, images, i + 1, dataset_dir, mask_dir,
                [st EXCEPT !.io = io1,
                           !.image_info = Append(@,
                              [id |-> image_id_of(filename),
                               source |-> "ear",
                               path |-> image_path,
                               width |-> img.shape[2],
                               height |-> img.shape[1],
                               mask |-> mask_path])])

images_dir(dataset_dir, subset) == join(dataset_dir, Rel(subset))

annot_dir(dataset_dir, subset) ==
    join(dataset_dir, Rel(subset \o <<"a", "n", "n", "o", "t">>))

\* EarDataset.load_ear(dataset_dir, subset), images being the file names in
\* the order os.walk yields them
load_ear_result(files, ci, ii, dataset_dir, subset, images) ==
    LET ci1 == Append(ci, [source |-> "ear", id |-> 1, name |-> "ear"])
    IN IF ~subset_ok(subset)
       THEN [class_info |-> ci1, image_info |-> ii, io |-> <<>>,
             err |-> "AssertionError"]
       ELSE
         LET st0 == [class_info |-> ci1, image_info |-> ii,
                     io |-> <<[op |-> "walk",
                               path |-> images_dir(dataset_dir, subset)]>>,
                     err |-> None]
         IN add_images(files, images, 1, images_dir(dataset_dir, subset),
                       annot_dir(dataset_dir, subset), st0)

NoRet == [status |-> "none", image_id |-> 0, mask |-> <<>>, shape |-> <<>>,
          class_ids |-> <<>>, files |-> <<>>, err |-> None]

load_ear(subset, images) ==
    /\ pc = "new"
    /\ LET r == load_ear_result(fs, class_info, image_info, dataset_root,
                                subset, images)
       IN /\ class_info' = r.class_info
          /\ image_info' = r.image_info
          /\ io' = r.io
          /\ err' = r.err
          /\ pc' = IF r.err = None THEN "loaded" ELSE "failed"
    /\ subset_arg' = subset
    /\ UNCHANGED <<fs, dataset_root, ret>>
    /\ UNCHANGED splashVars
    /\ UNCHANGED cliVars

\* the pattern load_mask hands to glob for a record
mask_pattern(info) == concat(splitextRoot(info.mask), <<"_", "?", ".", "*">>)

\* the path load_mask reads for a discovered file
read_path(parent, file) == join(parent, file)

\* the loop reading the discovered files
RECURSIVE read_masks(_, _, _, _, _)
read_masks(files, found, i, parent, st) ==
    IF i > Len(found) THEN st
    ELSE
      LET mask_path == read_path(parent, found[i])
          m == imread(files, mask_path)
          io1 == Append(st.io, [op |-> "imread", path |-> mask_path])
      IN IF ~m.ok
         THEN [st EXCEPT !.io = io1, !.err = m.err]
         ELSE read_masks(files, found, i + 1, parent,
                [st EXCEPT !.io = io1,
                           !.mask = Append(@, [shape |-> m.shape,
                                               v |-> (m.v # 0)])])

\* np.stack(mask, axis=-1)
np_stack(arrays) ==
    IF Len(arrays) = 0
    THEN [ok |-> FALSE, err |-> "ValueError: need at least one array to stack"]
    ELSE IF \E k \in 1..Len(arrays) : arrays[k].shape # arrays[1].shape
    THEN [ok |-> FALSE,
          err |-> "ValueError: all input arrays must have the same shape"]
    ELSE [ok |-> TRUE, layers |-> arrays,
          shape |-> arrays[1].shape \o <<Len(arrays)>>]

\* np.ones([n], dtype=np.int32)
np_ones(n) == [k \in 1..n |-> 1]

\* what load_mask returns (or raises) and the reads it makes, found being
\* glob's result in the order glob returns it
load_mask_ret(files, ii, image_id, found) ==
    LET info == ii[image_id]
        parent == dirname(info.mask)
        glob_io == <<[op |-> "glob", path |-> mask_pattern(info)]>>
        rd == read_masks(files, found, 1, parent,
                         [mask |-> <<>>, io |-> glob_io, err |-> None])
        stacked == np_stack(rd.mask)
        base == [NoRet EXCEPT !.image_id = image_id, !.files = found]
    IN IF info.source # "ear"
       THEN [ret |-> [base EXCEPT !.status = "delegated", !.files = <<>>],
             io |-> <<>>]
       ELSE IF rd.err # None
       THEN [ret |-> [base EXCEPT !.status = "error", !.err = rd.err],
             io |-> rd.io]
       ELSE IF ~stacked.ok
       THEN [ret |-> [base EXCEPT !.status = "error", !.err = stacked.err],
             io |-> rd.io]
       ELSE [ret |-> [base EXCEPT !.status = "ok",
                                  !.mask = stacked.layers,
                                  !.shape = stacked.shape,
                                  !.class_ids = np_ones(stacked.shape[3])],
             io |-> rd.io]

\* load_mask keeping the stripped mask stem in the record it looked up
load_mask_result_stores(files, ii, image_id, found) ==
    LET r == load_mask_ret(files, ii, image_id, found)
    IN [ret |-> r.ret, io |-> r.io,
        image_info |-> [ii EXCEPT ![image_id].mask = splitextRoot(@)]]

\* EarDataset.load_mask(image_id): its result and the catalog it leaves
load_mask_result(files, ii, image_id, found) ==
    LET r == load_mask_ret(files, ii, image_id, found)
    IN [ret |-> r.ret, io |-> r.io, image_info |-> ii]

load_mask(image_id, found) ==
    /\ pc = "loaded"
    /\ image_id \in 1..Len(image_info)
    /\ LET r == load_mask_result(fs, image_info, image_id, found)
       IN /\ ret' = r.ret
          /\ io' = r.io
          /\ image_info' = r.image_info
    /\ UNCHANGED <<fs, dataset_root, pc, subset_arg, class_info, err>>
    /\ UNCHANGED splashVars
    /\ UNCHANGED cliVars

\* what glob may return for a record: the matches in any order
glob_results(files, info) == Perms(globSet(files, mask_pattern(info)))

\* what os.walk may yield as filenames of the images directory
walk_results(files, dataset_dir, subset) ==
    IF subset_ok(subset)
    THEN Perms(listfiles(files, images_dir(dataset_dir, subset)))
    ELSE {<<>>}

IdleSplash ==
    /\ image = <<>>
    /\ mask = <<>>
    /\ splash = <<>>

IdleCli ==
    /\ args = None
    /\ cli_pc = "idle"
    /\ outcome = None
    /\ written = <<>>
    /\ printed = <<>>
    /\ file_name = None

IdleDataset ==
    /\ fs = <<>>
    /\ dataset_root = None
    /\ pc = "idle"
    /\ subset_arg = None
    /\ class_info = <<>>
    /\ image_info = <<>>
    /\ err = None
    /\ ret = NoRet
    /\ io = <<>>

InitDataset ==
    /\ \E root \in Roots,
          imgs \in Choices(ImageNames, ImageContents, MaxImages),
          msks \in Choices(MaskNames, MaskContents, MaxMasks) :
            /\ dataset_root = root
            /\ fs = Disk(root, imgs, msks)
    /\ pc = "new"
    /\ subset_arg = None
    /\ class_info = <<BG>>
    /\ image_info = <<>>
    /\ err = None
    /\ ret = NoRet
    /\ io = <<>>
    /\ IdleSplash
    /\ IdleCli

DoLoadEar ==
    \E subset \in Subsets :
        \E images \in walk_results(fs, dataset_root, subset) :
            load_ear(subset, images)

DoLoadMask ==
    \E image_id \in 1..Len(image_info) :
        \E found \in glob_results(fs, image_info[image_id]) :
            load_mask(image_id, found)

NextDataset == DoLoadEar \/ DoLoadMask

SpecDataset == InitDataset /\ [][NextDataset]_vars

(* ---------------------------------------------------------------------- *)
(* color_splash                                                            *)
(* ---------------------------------------------------------------------- *)
ImageShapes == {<<1, 2>>, <<2, 1>>}

Colors == {<<255, 0, 0>>, <<0, 128, 255>>, <<90, 90, 90>>}

Positions(sh) == (1..sh[1]) \X (1..sh[2])

\* RGB images [height, width, 3] with values in 0..255
Images ==
    UNION {{[shape |-> sh \o <<3>>, px |-> f] : f \in [Positions(sh) -> Colors]} :
              sh \in ImageShapes}

\* boolean mask stacks [height, width, instance count] of a given shape
Stacks(sh) ==
    UNION {{[shape |-> sh \o <<n>>, layers |-> ls] :
               ls \in [1..n -> [Positions(sh) -> BOOLEAN]]} :
              n \in 0..MaxInstances}

\* skimage.color.rgb2gray on a pixel, scaled by 255 and cast to uint8: the
\* luminance 0.2125 R + 0.7154 G + 0.0721 B, truncated
luminance(p) == (2125 * p[1] + 7154 * p[2] + 721 * p[3]) \div 10000

\* skimage.color.gray2rgb(skimage.color.rgb2gray(image)) * 255
gray_of(img) ==
    [pos \in DOMAIN img.px |->
        <<luminance(img.px[pos]), luminance(img.px[pos]),
          luminance(img.px[pos])>>]

\* np.sum(mask, -1, keepdims=True) at one position
RECURSIVE sum_layers(_, _, _)
sum_layers(layers, k, pos) ==
    IF k = 0 THEN 0
    ELSE sum_layers(layers, k - 1, pos) + (IF layers[k][pos] THEN 1 ELSE 0)

\* the collapsed mask with a strict comparison
collapsed_strict(m, pos) == sum_layers(m.layers, Len(m.layers), pos) > 1

\* the collapsed mask of color_splash: sum over the instances >= 1
collapsed(m, pos) == sum_layers(m.layers, Len(m.layers), pos) >= 1

color_splash(img, m) ==
    LET gray == gray_of(img)
    IN IF m.shape[3] > 0
       THEN [shape |-> img.shape,
             px |-> [pos \in DOMAIN img.px |->
                        IF collapsed(m, pos) THEN img.px[pos] ELSE gray[pos]]]
       ELSE [shape |-> img.shape, px |-> gray]

InitSplash ==
    /\ \E img \in Images :
          /\ image = img
          /\ \E m \in Stacks(<<img.shape[1], img.shape[2]>>) : mask = m
    /\ splash = <<>>
    /\ IdleDataset
    /\ IdleCli

DoColorSplash ==
    /\ cli_pc = "idle"
    /\ image # <<>>
    /\ splash = <<>>
    /\ splash' = color_splash(image, mask)
    /\ UNCHANGED <<image, mask>>
    /\ UNCHANGED dsVars
    /\ UNCHANGED cliVars

NextSplash == DoColorSplash

SpecSplash == InitSplash /\ [][NextSplash]_vars

(* ---------------------------------------------------------------------- *)
(* Command line: argument validation, set-up, dispatch, train and detect   *)
(* ---------------------------------------------------------------------- *)
Commands == {"train", "evaluate", "splash"}

ImageArgs == {None, "ear.jpg", "missing.jpg"}

VideoArgs == {None, "ear.mp4"}

WeightArgs == {"coco", "COCO", "last", "imagenet", "w.h5"}

DatasetArgs == {None, "d"}

Times == {"20200101T000000", "20200101T000001"}

\* str.lower() on the weight arguments
lower(w) == IF w = "COCO" THEN "coco" ELSE w

\* the weights file selected from --weights
weights_path(w) ==
    IF lower(w) = "coco" THEN "COCO_WEIGHTS_PATH"
    ELSE IF lower(w) = "last" THEN "model.find_last()"
    ELSE IF lower(w) = "imagenet" THEN "model.get_imagenet_weights()"
    ELSE w

\* the asserts validating the arguments
args_ok(a) ==
    IF a.command = "train" THEN a.dataset # None
    ELSE IF a.command = "evaluate" THEN a.image # None \/ a.video # None
    ELSE TRUE

InitCli ==
    /\ \E c \in Commands, im \in ImageArgs, vi \in VideoArgs,
          w \in WeightArgs, d \in DatasetArgs :
            args = [command |-> c, image |-> im, video |-> vi,
                    weights |-> w, dataset |-> d]
    /\ cli_pc = "validate"
    /\ outcome = None
    /\ written = <<>>
    /\ printed = <<>>
    /\ file_name = None
    /\ IdleSplash
    /\ IdleDataset

Validate ==
    /\ cli_pc = "validate"
    /\ IF args_ok(args)
       THEN /\ cli_pc' = "setup"
            /\ outcome' = outcome
       ELSE /\ cli_pc' = "error"
            /\ outcome' = "AssertionError"
    /\ UNCHANGED <<args, written, printed, file_name>>
    /\ UNCHANGED splashVars
    /\ UNCHANGED dsVars

\* printing the arguments, building the configuration and the model,
\* selecting and loading the weights
Setup ==
    /\ cli_pc = "setup"
    /\ printed' = printed \o
          <<(<<"Weights: ", args.weights>>), (<<"Dataset: ", args.dataset>>),
            (<<"Logs: ", "DEFAULT_LOGS_DIR">>),
            (<<"Loading weights ", weights_path(args.weights)>>)>>
    /\ cli_pc' = "dispatch"
    /\ UNCHANGED <<args, outcome, written, file_name>>
    /\ UNCHANGED splashVars
    /\ UNCHANGED dsVars

\* train(model): the two catalogs are built by load_ear (SpecDataset) and
\* handed to the framework's training loop
train ==
    /\ cli_pc = "dispatch"
    /\ args.command = "train"
    /\ printed' = Append(printed, <<"Training network heads">>)
    /\ cli_pc' = "done"
    /\ outcome' = "ok"
    /\ UNCHANGED <<args, written, file_name>>
    /\ UNCHANGED splashVars
    /\ UNCHANGED dsVars

\* the image file args.image names, as skimage.io.imread finds it
readable(path) == path = "ear.jpg"

\* detect(model, image_path, video_path) with the file's content img, the
\* model's detection r_masks and the clock reading now
detect(img, r_masks, now) ==
    /\ cli_pc = "dispatch"
    /\ args.command = "evaluate"
    /\ IF args.image # None
       THEN IF readable(args.image)
            THEN LET name == <<"splash_", now, ".png">>
                     out == color_splash(img, r_masks)
                 IN /\ image' = img
                    /\ mask' = r_masks
                    /\ splash' = out
                    /\ file_name' = name
                    /\ written' = Append(written, [name |-> name, data |-> out])
                    /\ printed' = printed \o
                          <<(<<"Running on ", args.image>>),
                            (<<"Save to ", name>>)>>
                    /\ cli_pc' = "done"
                    /\ outcome' = "ok"
            ELSE /\ printed' = Append(printed, <<"Running on ", args.image>>)
                 /\ cli_pc' = "error"
                 /\ outcome' = "FileNotFoundError"
                 /\ UNCHANGED <<image, mask, splash, file_name, written>>
       ELSE \* file_name was never assigned when the final print reads it
            /\ printed' = Append(printed, <<"Video option not supported">>)
            /\ cli_pc' = "error"
            /\ outcome' = "UnboundLocalError"
            /\ UNCHANGED <<image, mask, splash, file_name, written>>
    /\ UNCHANGED args
    /\ UNCHANGED dsVars

DoDetect ==
    \E img \in Images :
        \E r_masks \in Stacks(<<img.shape[1], img.shape[2]>>) :
            \E now \in Times : detect(img, r_masks, now)

NotRecognized ==
    /\ cli_pc = "dispatch"
    /\ args.command \notin {"train", "evaluate"}
    /\ printed' = Append(printed, <<"not recognized", args.command>>)
    /\ cli_pc' = "done"
    /\ outcome' = "ok"
    /\ UNCHANGED <<args, written, file_name>>
    /\ UNCHANGED splashVars
    /\ UNCHANGED dsVars

NextCli == Validate \/ Setup \/ train \/ DoDetect \/ NotRecognized

SpecCli == InitCli /\ [][NextCli]_vars

(* ---------------------------------------------------------------------- *)
(* Properties                                                              *)
(* ---------------------------------------------------------------------- *)
\* a load_mask call has been made; ret, io describe the latest one
Called == ret.status \in {"ok", "error"}

Rec == image_info[ret.image_id]

\* the mask a discovered file decodes to
Decoded(p) == [shape |-> fs[p].shape, v |-> (fs[p].v # 0)]

\* the immediate file entries of the directory load_ear was asked to scan
Scanned == listfiles(fs, images_dir(dataset_root, subset_arg))

ScannedPath(n) == join(images_dir(dataset_root, subset_arg), Rel(n))

\* C1: a load_mask call for a record with no matching mask file returns
\* normally with zero masks and zero class ids.
C1_EmptyStack ==
    (Called /\ Len(ret.files) = 0) =>
        (ret.status = "ok" /\ ret.mask = <<>> /\ ret.class_ids = <<>>)

\* C2: a load_mask call fails whenever some matched mask decodes to a
\* height or width other than the record's declared height and width.
C2_ShapeMismatchFails ==
    (Called /\ \E k \in 1..Len(ret.files) :
                  fs[ret.files[k]].shape # <<Rec.height, Rec.width>>)
        => ret.status = "error"

\* C3: a load_mask call for a record with k >= 1 matching mask files returns
\* the k decoded masks in discovery order and k class ids, all equal to 1.
C3_KMasks ==
    (Called /\ Len(ret.files) >= 1) =>
        /\ ret.status = "ok"
        /\ Len(ret.mask) = Len(ret.files)
        /\ Len(ret.class_ids) = Len(ret.files)
        /\ \A k \in 1..Len(ret.files) :
              /\ ret.class_ids[k] = 1
              /\ ret.mask[k] = Decoded(ret.files[k])

\* C4: load_ear over a directory of N decodable image files adds exactly N
\* records, one per file, with id the file's stem, and the ids are pairwise
\* distinct.
C4_OneRecordPerFile ==
    (pc = "loaded" /\ \A n \in Scanned : fs[ScannedPath(n)].ok) =>
        /\ Len(image_info) = Cardinality(Scanned)
        /\ \A n \in Scanned :
              \E k \in 1..Len(image_info) :
                  /\ image_info[k].path = ScannedPath(n)
                  /\ image_info[k].id = splitextName(n)[1]
        /\ \A j, k \in 1..Len(image_info) :
              j # k => image_info[j].id # image_info[k].id

\* C5: when some immediate entry of the images directory cannot be decoded,
\* load_ear fails and leaves no record in the catalog.
C5_NoPartialCatalog ==
    (pc # "new" /\ subset_arg \in {Train, Test}
       /\ \E n \in Scanned : ~fs[ScannedPath(n)].ok)
        => (pc = "failed" /\ err = "DecodeError" /\ image_info = <<>>)

\* C6: load_ear with a subset other than train and test fails on its assert
\* before any directory is listed or image read, and adds no record.
C6_InvalidSubset ==
    (pc # "new" /\ subset_arg \notin {Train, Test}) =>
        /\ pc = "failed"
        /\ err = "AssertionError"
        /\ io = <<>>
        /\ image_info = <<>>

C6_Witness ==
    /\ pc = "failed"
    /\ subset_arg = TrainAnnot
    /\ listfiles(fs, images_dir(dataset_root, TrainAnnot)) # {}
    /\ listfiles(fs, images_dir(dataset_root, Train)) # {}

\* C7: color_splash returns an image of the input's shape whose pixel is the
\* original pixel where some instance mask is true and the gray pixel (three
\* equal luminance channels) elsewhere.
C7_Composite ==
    (cli_pc = "idle" /\ splash # <<>>) =>
        /\ splash.shape = image.shape
        /\ DOMAIN splash.px = DOMAIN image.px
        /\ \A pos \in DOMAIN image.px :
              IF \E k \in 1..Len(mask.layers) : mask.layers[k][pos]
              THEN splash.px[pos] = image.px[pos]
              ELSE /\ splash.px[pos][1] = luminance(image.px[pos])
                   /\ splash.px[pos][2] = splash.px[pos][1]
                   /\ splash.px[pos][3] = splash.px[pos][1]

C7_Witness ==
    /\ cli_pc = "idle"
    /\ splash # <<>>
    /\ mask.shape[3] = 2
    /\ \E p, q \in DOMAIN image.px :
          /\ mask.layers[1][p] /\ ~mask.layers[2][p]
          /\ ~mask.layers[1][q] /\ ~mask.layers[2][q]
          /\ image.px[p] # gray_of(image)[p]
          /\ image.px[q] # gray_of(image)[q]
          /\ splash.px[p] = image.px[p]
          /\ splash.px[q] = gray_of(image)[q]

\* C8: once the catalog is built, no load_mask call, returning or failing,
\* changes the sequence of image records.
C8_CatalogImmutable ==
    [][pc = "loaded" => image_info' = image_info]_vars

C8_Witness ==
    /\ pc = "loaded"
    /\ ret.status = "error"
    /\ Len(image_info) >= 2

\* C9: an evaluate run given --image or --video, whose detection did not
\* fail, ends normally having written exactly one output file and reported
\* its name.
C9_EvaluateWritesOne ==
    (/\ cli_pc \in {"done", "error"}
     /\ args.command = "evaluate"
     /\ (args.image # None \/ args.video # None)
     /\ outcome # "FileNotFoundError")
        => /\ cli_pc = "done"
           /\ outcome = "ok"
           /\ Len(written) = 1
           /\ written[1].name = file_name
           /\ printed[Len(printed)] = <<"Save to ", file_name>>

\* C10: every path load_mask reads is the path glob matched, in order.
C10_ReadsMatchedPath ==
    Called =>
        \A k \in 2..Len(io) :
            /\ io[k].op = "imread"
            /\ io[k].path = ret.files[k - 1]
====
